---- MODULE Spec2Model ----
(***************************************************************************)
(* Model of rosbag2_py/_reader.cpp: the Python binding of the rosbag2      *)
(* sequential readers (Reader<T>, T = SequentialReader or                  *)
(* SequentialCompressionReader) and of get_registered_readers().           *)
(*                                                                         *)
(* Two Python reader objects, one per bound class, are driven in lock-step *)
(* with the same calls over the same bag, so that the two classes can be   *)
(* compared call for call.                                                 *)
(***************************************************************************)
EXTENDS Integers, Sequences, FiniteSets, TLC

VARIABLES
    bag,          \* the records stored in the bag at the good uri
    rd,           \* per bound class: the state behind Reader<T>::reader_
    ret,          \* per bound class: what the last call gave the caller
    call,         \* the last call made on the two readers
    obs,          \* per bound class: the records handed out since open
    api,          \* history flags of the call sequence since open
    heap,         \* the backend reader instances and which object owns which
    rw_declared,  \* plugins declared under ReadWriteInterface
    ro_declared,  \* plugins declared under ReadOnlyInterface
    registered    \* the last get_registered_readers() call: its result and
                  \* the plugins declared when it was made

vars == <<bag, rd, ret, call, obs, api, heap, rw_declared, ro_declared,
          registered>>

readerVars == <<bag, rd, ret, call, obs, api, heap>>
registryVars == <<rw_declared, ro_declared, registered>>

----------------------------------------------------------------------------
(* Bounds *)

MaxLog == 3         \* records in a bag
MaxPlugins == 3     \* plugin identifiers known to the class loader
MaxProbes == 2      \* has_next calls inserted before one read_next

----------------------------------------------------------------------------
(* Input domains *)

Topics == {"cmd", "sensor"}
Filters == {{}, {"cmd"}, {"sensor"}}
Uris == {"bag_ok", "missing"}
AllPluginIds == <<"sqlite3", "mcap", "custom", "extra">>
PluginIds == {AllPluginIds[i] : i \in 1..MaxPlugins}

Magic == 9          \* first byte of a well-formed compressed payload
Slack == <<0>>      \* capacity of an rcutils buffer beyond buffer_length

\* The kinds of record a bag holds: plain ones, one compressed and well
\* formed, one compressed and corrupt.
RecordKinds ==
    { [topic_name |-> "cmd",    data |-> <<1, 0>>,        compressed |-> FALSE],
      [topic_name |-> "sensor", data |-> <<0, 1>>,        compressed |-> FALSE],
      [topic_name |-> "sensor", data |-> <<Magic, 1, 0>>, compressed |-> TRUE],
      [topic_name |-> "cmd",    data |-> <<1, 1>>,        compressed |-> TRUE] }

\* Time stamps in storage order: non-decreasing, with a tie (100, 150, 150,
\* 200, ...), as a storage backend yields its records ordered by time stamp.
TimeStampAt(i) == 100 + 50 * (i \div 2)

Bags ==
    UNION { { [i \in 1..n |->
                 [topic_name |-> k[i].topic_name, data |-> k[i].data,
                  compressed |-> k[i].compressed, time_stamp |-> TimeStampAt(i)]] :
              k \in [1..n -> RecordKinds] } :
            n \in 0..MaxLog }

\* The topic index of the bag, independent of the records present.
TopicIndex ==
    << [name |-> "cmd",    type |-> "std_msgs/String", serialization_format |-> "cdr"],
       [name |-> "sensor", type |-> "std_msgs/Int32",  serialization_format |-> "cdr"] >>

Classes == {"SequentialReader", "SequentialCompressionReader"}

----------------------------------------------------------------------------
(* Plugin registry *)

RECURSIVE SetToSeq(_)
\* An unordered_set holds each element once, in some iteration order.
SetToSeq(S) ==
    IF S = {} THEN <<>>
    ELSE LET x == CHOOSE y \in S : TRUE
         IN  <<x>> \o SetToSeq(S \ {x})

Range(s) == { s[i] : i \in 1..Len(s) }

\* rosbag2_cpp::plugins::get_class_plugins<InterfaceT>()
get_class_plugins(interface) ==
    IF interface = "ReadWriteInterface" THEN SetToSeq(rw_declared)
    ELSE SetToSeq(ro_declared)

\* std::unordered_set::insert(value): no effect when the key is present.
insert(set, value) ==
    IF value \in Range(set) THEN set ELSE Append(set, value)

RECURSIVE insert_range(_, _)
\* std::unordered_set::insert(first, last)
insert_range(set, values) ==
    IF values = <<>> THEN set
    ELSE insert_range(insert(set, Head(values)), Tail(values))

\* A merge that forgets the read-only plugins.
get_registered_readers_rw_only ==
    get_class_plugins("ReadWriteInterface")

get_registered_readers ==
    LET combined_plugins == get_class_plugins("ReadWriteInterface")
        read_only_plugins == get_class_plugins("ReadOnlyInterface")
    IN  insert_range(combined_plugins, read_only_plugins)

----------------------------------------------------------------------------
(* The reader behind reader_: rosbag2_cpp::Reader driving T *)

NewReader ==
    [opened |-> FALSE, pos |-> 0, filter |-> {}, corrupted |-> FALSE]

\* An empty allowed set lets every topic through.
Allowed(filter, topic_name) ==
    filter = {} \/ topic_name \in filter

NoMessage == <<>>

Thrown(r, e) == [rd |-> r, err |-> e, b |-> FALSE, next |-> NoMessage,
                 meta |-> <<>>, idx |-> 0]

Returned(r) == [rd |-> r, err |-> "none", b |-> FALSE, next |-> NoMessage,
                meta |-> <<>>, idx |-> 0]

\* The codec: a well-formed compressed payload is Magic then the bytes.
DecompressOk(data) == data # <<>> /\ Head(data) = Magic
Decompress(data) == Tail(data)

\* The rcutils_uint8_array_t of a message: a buffer and the length in use.
SerializedData(bytes) ==
    [buffer |-> bytes \o Slack, buffer_length |-> Len(bytes)]

Message(rec, bytes) ==
    [topic_name |-> rec.topic_name,
     serialized_data |-> SerializedData(bytes),
     time_stamp |-> rec.time_stamp]

RECURSIVE SkipTo(_, _)
\* The filter loop: advance the backend from record i until a record passes
\* the filter or the backend is exhausted (result Len(bag) + 1).
SkipTo(filter, i) ==
    IF i > Len(bag) THEN i
    ELSE IF Allowed(filter, bag[i].topic_name) THEN i
    ELSE SkipTo(filter, i + 1)

reader_open(T, r, uri) ==
    IF r.opened THEN Thrown(r, "invalid_state")
    ELSE IF uri # "bag_ok" THEN Thrown(r, "storage_open")
    ELSE Returned([r EXCEPT !.opened = TRUE, !.pos = 0, !.filter = {}])

reader_has_next(T, r) ==
    IF ~r.opened THEN Thrown(r, "invalid_state")
    ELSE [Returned(r) EXCEPT !.b = SkipTo(r.filter, r.pos + 1) <= Len(bag)]

reader_read_next(T, r) ==
    IF ~r.opened THEN Thrown(r, "invalid_state")
    ELSE LET j == SkipTo(r.filter, r.pos + 1)
         IN  IF j > Len(bag)
             THEN Thrown([r EXCEPT !.pos = Len(bag)], "end_of_stream")
             ELSE IF r.corrupted THEN Thrown(r, "data_corruption")
             ELSE IF T = "SequentialCompressionReader" /\ bag[j].compressed
             THEN IF DecompressOk(bag[j].data)
                  THEN [Returned([r EXCEPT !.pos = j]) EXCEPT
                            !.next = <<Message(bag[j], Decompress(bag[j].data))>>,
                            !.idx = j]
                  ELSE Thrown([r EXCEPT !.pos = j, !.corrupted = TRUE],
                              "data_corruption")
             ELSE [Returned([r EXCEPT !.pos = j]) EXCEPT
                       !.next = <<Message(bag[j], bag[j].data)>>,
                       !.idx = j]

reader_get_all_topics_and_types(T, r) ==
    IF ~r.opened THEN Thrown(r, "invalid_state")
    ELSE [Returned(r) EXCEPT !.meta = TopicIndex]

reader_set_filter(T, r, storage_filter) ==
    IF ~r.opened THEN Thrown(r, "invalid_state")
    ELSE Returned([r EXCEPT !.filter = storage_filter])

reader_reset_filter(T, r) ==
    IF ~r.opened THEN Thrown(r, "invalid_state")
    ELSE Returned([r EXCEPT !.filter = {}])

\* The reader's destructor: the storage it opened, if any, is closed.
reader_destroy(T, r) ==
    [r EXCEPT !.opened = FALSE]

----------------------------------------------------------------------------
(* rosbag2_py::Reader<T>: the bound class *)

\* What crosses the binding: an exception (err), a bool, a tuple, a list.
PyRet(n) == [err |-> n.err, b |-> n.b, tuple |-> <<>>, meta |-> n.meta]

\* A member that only forwards: the result or the exception passes through.
Forward(n) == [rd |-> n.rd, ret |-> PyRet(n), idx |-> n.idx]

NoRet == [err |-> "none", b |-> FALSE, tuple |-> <<>>, meta |-> <<>>]

Reader == NewReader

\* The backend reader instances ever made (live or destroyed, with the
\* number of times each was destroyed) and the instance each object's
\* reader_ holds (0: none).
EmptyHeap == [own |-> [c \in Classes |-> 0], inst |-> <<>>]

\* std::make_unique: a new instance, distinct from every other.
make_unique(h) ==
    [h EXCEPT !.inst = Append(@, [live |-> TRUE, releases |-> 0])]

\* A constructor that takes one backend reader shared by all objects.
construct_shared(h, c) ==
    IF h.inst = <<>>
    THEN [make_unique(h) EXCEPT !.own[c] = 1]
    ELSE [h EXCEPT !.own[c] = 1]

\* Reader::Reader(): reader_ takes a backend reader made for this object.
construct(h, c) ==
    LET made == make_unique(h)
    IN  [made EXCEPT !.own[c] = Len(made.inst)]

\* ~Reader(): the unique_ptr reader_ destroys the instance it holds.
destroy(h, c) ==
    LET id == h.own[c]
    IN  IF id = 0 THEN h
        ELSE [h EXCEPT !.own[c] = 0,
                       !.inst[id] = [live |-> FALSE,
                                     releases |-> @.releases + 1]]

HeapAtStart ==
    construct(construct(EmptyHeap, "SequentialReader"),
              "SequentialCompressionReader")

\* An open that first replaces reader_ by a newly made reader.
open_recreate(T, r, storage_options) ==
    Forward(reader_open(T, NewReader, storage_options))

\* An open that catches the storage's failure and returns normally.
open_quiet(T, r, storage_options) ==
    LET n == reader_open(T, r, storage_options)
    IN  IF n.err = "storage_open" THEN [rd |-> n.rd, ret |-> NoRet, idx |-> 0]
        ELSE Forward(n)

open(T, r, storage_options) ==
    Forward(reader_open(T, r, storage_options))

\* A has_next that probes by reading the next message.
has_next_by_reading(T, r) ==
    LET next == reader_read_next(T, r)
    IN  IF next.err = "invalid_state" THEN Forward(next)
        ELSE [rd |-> next.rd, ret |-> [NoRet EXCEPT !.b = next.err = "none"],
              idx |-> 0]

\* A has_next that answers false where the reader throws.
has_next_quiet(T, r) ==
    LET n == reader_has_next(T, r)
    IN  IF n.err # "none" THEN [rd |-> n.rd, ret |-> NoRet, idx |-> 0]
        ELSE Forward(n)

\* A has_next that answers and then steps the reader one record forward.
has_next_advancing(T, r) ==
    LET n == reader_has_next(T, r)
    IN  IF n.err # "none" THEN Forward(n)
        ELSE Forward([n EXCEPT !.rd.pos =
                         IF r.pos < Len(bag) THEN r.pos + 1 ELSE r.pos])

\* A has_next that answers true on every opened reader.
has_next_optimistic(T, r) ==
    LET n == reader_has_next(T, r)
    IN  IF n.err # "none" THEN Forward(n)
        ELSE Forward([n EXCEPT !.b = TRUE])

\* A has_next that asks whether any record remains, allowed or not.
has_next_unfiltered(T, r) ==
    LET n == reader_has_next(T, [r EXCEPT !.filter = {}])
    IN  Forward([n EXCEPT !.rd = r])

has_next(T, r) ==
    Forward(reader_has_next(T, r))

\* A read_next that turns the end of the stream into an empty tuple.
read_next_sentinel(T, r) ==
    LET next == reader_read_next(T, r)
    IN  IF next.err = "end_of_stream"
        THEN [rd |-> next.rd,
              ret |-> [NoRet EXCEPT !.tuple = << <<"", <<>>, 0>> >>],
              idx |-> 0]
        ELSE IF next.err # "none" THEN Forward(next)
        ELSE LET rcutils_data == next.next[1].serialized_data
                 serialized_data ==
                     SubSeq(rcutils_data.buffer, 1, rcutils_data.buffer_length)
             IN  [rd |-> next.rd,
                  ret |-> [PyRet(next) EXCEPT !.tuple =
                              << <<next.next[1].topic_name, serialized_data,
                                   next.next[1].time_stamp>> >>],
                  idx |-> next.idx]

\* A read_next that takes two messages from the reader and returns the
\* second.
read_next_twice(T, r) ==
    LET first == reader_read_next(T, r)
        next == IF first.err # "none" THEN first
                ELSE reader_read_next(T, first.rd)
    IN  IF next.err # "none" THEN Forward(next)
        ELSE LET rcutils_data == next.next[1].serialized_data
                 serialized_data ==
                     SubSeq(rcutils_data.buffer, 1, rcutils_data.buffer_length)
             IN  [rd |-> next.rd,
                  ret |-> [PyRet(next) EXCEPT !.tuple =
                              << <<next.next[1].topic_name, serialized_data,
                                   next.next[1].time_stamp>> >>],
                  idx |-> next.idx]

\* A read_next that restarts the reader from the first record when it
\* meets the end of the stream.
read_next_rewinding(T, r) ==
    LET next == reader_read_next(T, r)
    IN  IF next.err = "end_of_stream"
        THEN Forward([next EXCEPT !.rd.pos = 0])
        ELSE IF next.err # "none" THEN Forward(next)
        ELSE LET rcutils_data == next.next[1].serialized_data
                 serialized_data ==
                     SubSeq(rcutils_data.buffer, 1, rcutils_data.buffer_length)
             IN  [rd |-> next.rd,
                  ret |-> [PyRet(next) EXCEPT !.tuple =
                              << <<next.next[1].topic_name, serialized_data,
                                   next.next[1].time_stamp>> >>],
                  idx |-> next.idx]

\* A read_next that hands the time stamp out through a 7-bit field.
read_next_narrow_stamp(T, r) ==
    LET next == reader_read_next(T, r)
    IN  IF next.err # "none" THEN Forward(next)
        ELSE LET rcutils_data == next.next[1].serialized_data
                 serialized_data ==
                     SubSeq(rcutils_data.buffer, 1, rcutils_data.buffer_length)
             IN  [rd |-> next.rd,
                  ret |-> [PyRet(next) EXCEPT !.tuple =
                              << <<next.next[1].topic_name, serialized_data,
                                   next.next[1].time_stamp % 128>> >>],
                  idx |-> next.idx]

\* The bytes of a buffer up to its first zero byte.
RECURSIVE UpToZero(_)
UpToZero(bytes) ==
    IF bytes = <<>> \/ Head(bytes) = 0 THEN <<>>
    ELSE <<Head(bytes)>> \o UpToZero(Tail(bytes))

\* A read_next that builds the payload from the buffer as a C string.
read_next_cstring(T, r) ==
    LET next == reader_read_next(T, r)
    IN  IF next.err # "none" THEN Forward(next)
        ELSE LET rcutils_data == next.next[1].serialized_data
                 serialized_data == UpToZero(rcutils_data.buffer)
             IN  [rd |-> next.rd,
                  ret |-> [PyRet(next) EXCEPT !.tuple =
                              << <<next.next[1].topic_name, serialized_data,
                                   next.next[1].time_stamp>> >>],
                  idx |-> next.idx]

read_next(T, r) ==
    LET next == reader_read_next(T, r)
    IN  IF next.err # "none" THEN Forward(next)
        ELSE LET rcutils_data == next.next[1].serialized_data
                 serialized_data ==
                     SubSeq(rcutils_data.buffer, 1, rcutils_data.buffer_length)
             IN  [rd |-> next.rd,
                  ret |-> [PyRet(next) EXCEPT !.tuple =
                              << <<next.next[1].topic_name, serialized_data,
                                   next.next[1].time_stamp>> >>],
                  idx |-> next.idx]

\* A listing that leaves out the topics the active filter refuses.
get_all_topics_and_types_filtered(T, r) ==
    LET n == reader_get_all_topics_and_types(T, r)
        passes(m) == Allowed(r.filter, m.name)
    IN  Forward([n EXCEPT !.meta = SelectSeq(@, passes)])

get_all_topics_and_types(T, r) ==
    Forward(reader_get_all_topics_and_types(T, r))

\* A set_filter that passes a default-constructed filter on.
set_filter_default(T, r, storage_filter) ==
    Forward(reader_set_filter(T, r, {}))

\* A set_filter that restarts the reading from the first record.
set_filter_rewind(T, r, storage_filter) ==
    Forward(reader_set_filter(T, [r EXCEPT !.pos = 0], storage_filter))

set_filter(T, r, storage_filter) ==
    Forward(reader_set_filter(T, r, storage_filter))

\* A reset_filter that does not reach the reader.
reset_filter_noop(T, r) ==
    IF r.opened THEN Forward(Returned(r))
    ELSE Forward(Thrown(r, "invalid_state"))

reset_filter(T, r) ==
    Forward(reader_reset_filter(T, r))

\* A binding table whose set_filter of the compression class names
\* reset_filter.
Binding_misbound(class, method) ==
    IF class = "SequentialCompressionReader" /\ method = "set_filter"
    THEN [T |-> class, member |-> "reset_filter"]
    ELSE [T |-> class, member |-> method]

\* A binding table whose read_next of the compression class is the member
\* of Reader<SequentialReader>.
Binding_plain_read(class, method) ==
    IF class = "SequentialCompressionReader" /\ method = "read_next"
    THEN [T |-> "SequentialReader", member |-> method]
    ELSE [T |-> class, member |-> method]

\* PYBIND11_MODULE(_reader): each Python method of each bound class is the
\* member of the same name of Reader<T> for that class's T.
Binding(class, method) ==
    [T |-> class, member |-> method]

Args(uri, filter) == [uri |-> uri, filter |-> filter]
NoArgs == Args("", {})

\* A Python call of a method on the object of a bound class.
PyCall(class, method, r, args) ==
    LET bound == Binding(class, method)
    IN  CASE bound.member = "open" -> open(bound.T, r, args.uri)
          [] bound.member = "has_next" -> has_next(bound.T, r)
          [] bound.member = "read_next" -> read_next(bound.T, r)
          [] bound.member = "get_all_topics_and_types" ->
                 get_all_topics_and_types(bound.T, r)
          [] bound.member = "set_filter" -> set_filter(bound.T, r, args.filter)
          [] bound.member = "reset_filter" -> reset_filter(bound.T, r)

----------------------------------------------------------------------------
(* History of the calls, kept for stating the properties *)

NoObs == [out |-> <<>>, idxs |-> <<>>, read_failed |-> FALSE]

\* reads: a read_next call was made; midchange: the filter was changed after
\* a read_next call; lastfop: how the filter in force at the first read_next
\* was installed ("set": by set_filter with a topic set, "reset": by
\* reset_filter, "set_reset": by reset_filter after such a set_filter);
\* chg: the shape of the latest calls; want: the filter the caller asked for.
\* loop: the caller's loop "while has_next(): read_next()", when one runs,
\* and the class whose results it follows.
NoLoop == [class |-> "none", pc |-> "off"]

NoApi == [reads |-> FALSE, midchange |-> FALSE, lastfop |-> "none",
          chg |-> "none", want |-> {}, loop |-> NoLoop]

\* The objects of both classes exist: neither has been disposed of.
Alive == \A c \in Classes : heap.own[c] # 0

Opened == \A c \in Classes : rd[c].opened

ObsAfter(o, method, res) ==
    IF method # "read_next" THEN o
    ELSE IF res.ret.err # "none" THEN [o EXCEPT !.read_failed = TRUE]
    ELSE [o EXCEPT !.out = Append(@, res.ret.tuple[1]),
                   !.idxs = Append(@, res.idx)]

IsFilterOp(method) == method \in {"set_filter", "reset_filter"}

ApiAfter(a, method, args) ==
    IF ~Opened THEN a
    ELSE [reads |-> a.reads \/ method = "read_next",
          midchange |-> a.midchange \/ (a.reads /\ IsFilterOp(method)),
          lastfop |-> IF IsFilterOp(method) /\ a.reads THEN "none"
                      ELSE IF ~IsFilterOp(method) THEN a.lastfop
                      ELSE IF method = "set_filter"
                      THEN IF args.filter # {} THEN "set" ELSE "none"
                      ELSE IF a.lastfop \in {"set", "set_reset"} THEN "set_reset"
                      ELSE "reset",
          chg |-> CASE method = "has_next" ->
                         IF a.chg \in {"probe", "probe2"}
                         THEN "probe2" ELSE "probe"
                    [] IsFilterOp(method) ->
                         IF a.chg \in {"probe", "probe2", "probe_change"}
                         THEN "probe_change" ELSE "none"
                    [] method = "read_next" ->
                         IF a.chg = "probe_change" THEN "change_read"
                         ELSE IF a.chg \in {"probe", "probe2"} THEN "probe_read"
                         ELSE "none"
                    [] OTHER -> "none",
          want |-> IF method = "set_filter" THEN args.filter
                   ELSE IF method = "reset_filter" THEN {}
                   ELSE a.want,
          loop |-> a.loop]

----------------------------------------------------------------------------
(* Actions: one per Python-level operation *)

\* The readers, the results and the history after the call of a method on
\* the objects of both classes.
RdAfter(method, args) ==
    [c \in Classes |-> PyCall(c, method, rd[c], args).rd]

RetAfter(method, args) ==
    [c \in Classes |-> PyCall(c, method, rd[c], args).ret]

ObsAllAfter(method, args) ==
    [c \in Classes |-> ObsAfter(obs[c], method, PyCall(c, method, rd[c], args))]

Called(method, args) == [method |-> method, args |-> args]

Open ==
    \E uri \in Uris :
        /\ Alive
        /\ rd' = RdAfter("open", Args(uri, {}))
        /\ ret' = RetAfter("open", Args(uri, {}))
        /\ obs' = ObsAllAfter("open", Args(uri, {}))
        /\ api' = ApiAfter(api, "open", Args(uri, {}))
        /\ call' = Called("open", Args(uri, {}))
        /\ UNCHANGED <<bag, heap, registryVars>>

HasNext ==
    /\ Alive
    /\ rd' = RdAfter("has_next", NoArgs)
    /\ ret' = RetAfter("has_next", NoArgs)
    /\ obs' = ObsAllAfter("has_next", NoArgs)
    /\ api' = ApiAfter(api, "has_next", NoArgs)
    /\ call' = Called("has_next", NoArgs)
    /\ UNCHANGED <<bag, heap, registryVars>>

ReadNext ==
    /\ Alive
    /\ rd' = RdAfter("read_next", NoArgs)
    /\ ret' = RetAfter("read_next", NoArgs)
    /\ obs' = ObsAllAfter("read_next", NoArgs)
    /\ api' = ApiAfter(api, "read_next", NoArgs)
    /\ call' = Called("read_next", NoArgs)
    /\ UNCHANGED <<bag, heap, registryVars>>

GetAllTopicsAndTypes ==
    /\ Alive
    /\ rd' = RdAfter("get_all_topics_and_types", NoArgs)
    /\ ret' = RetAfter("get_all_topics_and_types", NoArgs)
    /\ obs' = ObsAllAfter("get_all_topics_and_types", NoArgs)
    /\ api' = ApiAfter(api, "get_all_topics_and_types", NoArgs)
    /\ call' = Called("get_all_topics_and_types", NoArgs)
    /\ UNCHANGED <<bag, heap, registryVars>>

SetFilter ==
    \E storage_filter \in Filters :
        /\ Alive
        /\ rd' = RdAfter("set_filter", Args("", storage_filter))
        /\ ret' = RetAfter("set_filter", Args("", storage_filter))
        /\ obs' = ObsAllAfter("set_filter", Args("", storage_filter))
        /\ api' = ApiAfter(api, "set_filter", Args("", storage_filter))
        /\ call' = Called("set_filter", Args("", storage_filter))
        /\ UNCHANGED <<bag, heap, registryVars>>

ResetFilter ==
    /\ Alive
    /\ rd' = RdAfter("reset_filter", NoArgs)
    /\ ret' = RetAfter("reset_filter", NoArgs)
    /\ obs' = ObsAllAfter("reset_filter", NoArgs)
    /\ api' = ApiAfter(api, "reset_filter", NoArgs)
    /\ call' = Called("reset_filter", NoArgs)
    /\ UNCHANGED <<bag, heap, registryVars>>

\* The object of one class is disposed of: its reader_ destroys the backend
\* reader it holds. The calls are made on the objects of both classes, so
\* none follows; the history of the calls, no longer needed, is dropped.
Dispose ==
    \E c \in Classes :
        /\ heap.own[c] # 0
        /\ heap' = destroy(heap, c)
        /\ rd' = [rd EXCEPT ![c] = reader_destroy(c, rd[c])]
        /\ obs' = [d \in Classes |-> NoObs]
        /\ api' = NoApi
        /\ UNCHANGED <<bag, ret, call, registryVars>>

\* A storage plugin is declared to the class loader under an interface.
DeclarePlugin ==
    \E p \in PluginIds, interface \in {"ReadWriteInterface", "ReadOnlyInterface"} :
        /\ IF interface = "ReadWriteInterface"
           THEN rw_declared' = rw_declared \cup {p} /\ UNCHANGED ro_declared
           ELSE ro_declared' = ro_declared \cup {p} /\ UNCHANGED rw_declared
        /\ UNCHANGED <<registered, readerVars>>

GetRegisteredReaders ==
    /\ registered' = [called |-> TRUE, plugins |-> get_registered_readers,
                      rw |-> rw_declared, ro |-> ro_declared]
    /\ UNCHANGED <<rw_declared, ro_declared, readerVars>>

----------------------------------------------------------------------------
(* The caller's loop: open, set_filter(F), while has_next(): read_next() *)

\* The loop follows the results of the object of class api.loop.class; pc
\* is the statement it is at: "start", "filter", "test" (the loop
\* condition), "body", "done" (the condition was false) or "error" (a call
\* raised and the exception left the loop).
LoopAt(pc) == api.loop.pc = pc

LoopRet(method, args) ==
    PyCall(api.loop.class, method, rd[api.loop.class], args).ret

LoopOpen ==
    /\ LoopAt("start")
    /\ Alive
    /\ rd' = RdAfter("open", Args("bag_ok", {}))
    /\ ret' = RetAfter("open", Args("bag_ok", {}))
    /\ obs' = ObsAllAfter("open", Args("bag_ok", {}))
    /\ api' = [ApiAfter(api, "open", Args("bag_ok", {})) EXCEPT
                  !.loop.pc = IF LoopRet("open", Args("bag_ok", {})).err # "none"
                              THEN "error" ELSE "filter"]
    /\ call' = Called("open", Args("bag_ok", {}))
    /\ UNCHANGED <<bag, heap, registryVars>>

LoopSetFilter ==
    \E storage_filter \in Filters :
        /\ LoopAt("filter")
        /\ Alive
        /\ rd' = RdAfter("set_filter", Args("", storage_filter))
        /\ ret' = RetAfter("set_filter", Args("", storage_filter))
        /\ obs' = ObsAllAfter("set_filter", Args("", storage_filter))
        /\ api' = [ApiAfter(api, "set_filter", Args("", storage_filter)) EXCEPT
                      !.loop.pc =
                          IF LoopRet("set_filter", Args("", storage_filter)).err
                               # "none"
                          THEN "error" ELSE "test"]
        /\ call' = Called("set_filter", Args("", storage_filter))
        /\ UNCHANGED <<bag, heap, registryVars>>

LoopHasNext ==
    /\ LoopAt("test")
    /\ Alive
    /\ rd' = RdAfter("has_next", NoArgs)
    /\ ret' = RetAfter("has_next", NoArgs)
    /\ obs' = ObsAllAfter("has_next", NoArgs)
    /\ api' = [ApiAfter(api, "has_next", NoArgs) EXCEPT
                  !.loop.pc = IF LoopRet("has_next", NoArgs).err # "none"
                              THEN "error"
                              ELSE IF LoopRet("has_next", NoArgs).b
                              THEN "body" ELSE "done"]
    /\ call' = Called("has_next", NoArgs)
    /\ UNCHANGED <<bag, heap, registryVars>>

LoopReadNext ==
    /\ LoopAt("body")
    /\ Alive
    /\ rd' = RdAfter("read_next", NoArgs)
    /\ ret' = RetAfter("read_next", NoArgs)
    /\ obs' = ObsAllAfter("read_next", NoArgs)
    /\ api' = [ApiAfter(api, "read_next", NoArgs) EXCEPT
                  !.loop.pc = IF LoopRet("read_next", NoArgs).err # "none"
                              THEN "error" ELSE "test"]
    /\ call' = Called("read_next", NoArgs)
    /\ UNCHANGED <<bag, heap, registryVars>>

----------------------------------------------------------------------------
(* Specifications *)

InitReaders ==
    /\ rd = [c \in Classes |-> Reader]
    /\ ret = [c \in Classes |-> NoRet]
    /\ obs = [c \in Classes |-> NoObs]
    /\ api = NoApi
    /\ call = [method |-> "init", args |-> NoArgs]
    /\ heap = HeapAtStart

InitRegistry ==
    /\ rw_declared = {}
    /\ ro_declared = {}
    /\ registered = [called |-> FALSE, plugins |-> <<>>, rw |-> {}, ro |-> {}]

Init ==
    /\ bag \in Bags
    /\ InitReaders
    /\ InitRegistry

Next ==
    \/ Open
    \/ HasNext
    \/ ReadNext
    \/ GetAllTopicsAndTypes
    \/ SetFilter
    \/ ResetFilter

Spec == Init /\ [][Next]_vars

\* The loop run by a caller on a bag, following either class.
LoopInit ==
    /\ bag \in Bags
    /\ rd = [c \in Classes |-> Reader]
    /\ ret = [c \in Classes |-> NoRet]
    /\ obs = [c \in Classes |-> NoObs]
    /\ \E c \in Classes :
          api = [NoApi EXCEPT !.loop = [class |-> c, pc |-> "start"]]
    /\ call = [method |-> "init", args |-> NoArgs]
    /\ heap = HeapAtStart
    /\ InitRegistry

LoopNext ==
    \/ LoopOpen
    \/ LoopSetFilter
    \/ LoopHasNext
    \/ LoopReadNext

\* Each call of the loop returns or raises: the caller always gets to make
\* the next call of the loop.
LoopSpec == LoopInit /\ [][LoopNext]_vars /\ WF_vars(LoopNext)

\* The objects in use and then disposed of.
LifeNext ==
    \/ Open
    \/ HasNext
    \/ ReadNext
    \/ GetAllTopicsAndTypes
    \/ SetFilter
    \/ ResetFilter
    \/ Dispose

LifeSpec == Init /\ [][LifeNext]_vars

RegistryInit ==
    /\ bag = <<>>
    /\ InitReaders
    /\ InitRegistry

RegistryNext ==
    \/ DeclarePlugin
    \/ GetRegisteredReaders

RegistrySpec == RegistryInit /\ [][RegistryNext]_vars

----------------------------------------------------------------------------
(* Properties *)

PlainClass == "SequentialReader"
CompressionClass == "SequentialCompressionReader"

\* C1: get_registered_readers() returns exactly the union of the plugins
\* declared under ReadWriteInterface and under ReadOnlyInterface: every
\* identifier of either set, nothing else, each exactly once.
C1_RegisteredIsUnion ==
    registered.called =>
        /\ Range(registered.plugins) = registered.rw \cup registered.ro
        /\ \A i, j \in 1..Len(registered.plugins) :
               registered.plugins[i] = registered.plugins[j] => i = j

\* get_registered_readers() was called with a plugin declared under both
\* interfaces and plugins declared under one only.
C1_Witness ==
    /\ registered.called
    /\ registered.rw \cap registered.ro # {}
    /\ registered.rw \ registered.ro # {}
    /\ registered.ro \ registered.rw # {}

C3_ReadPastEndFails ==
    [][\A c \in Classes :
          (/\ call'.method = "read_next"
           /\ rd[c].opened
           /\ ~PyCall(c, "has_next", rd[c], NoArgs).ret.b)
              => (ret'[c].err = "end_of_stream" /\ ret'[c].tuple = <<>>)]_vars

\* read_next() failed with end-of-stream on a bag whose remaining records
\* were all refused by the filter.
C3_Witness ==
    /\ call.method = "read_next"
    /\ api.want # {}
    /\ \A c \in Classes :
          /\ ret[c].err = "end_of_stream"
          /\ Len(obs[c].out) < Len(bag)

UnopenedOps ==
    {"has_next", "read_next", "get_all_topics_and_types", "set_filter",
     "reset_filter"}

\* C4: on a reader never successfully opened, has_next, read_next,
\* get_all_topics_and_types, set_filter and reset_filter each fail with an
\* invalid-state error and the reader stays unopened.
C4_UnopenedRejects ==
    [][\A c \in Classes :
          (~rd[c].opened /\ call'.method \in UnopenedOps)
              => (/\ ret'[c].err = "invalid_state"
                  /\ ret'[c].tuple = <<>>
                  /\ ret'[c].meta = <<>>
                  /\ rd'[c] = rd[c])]_vars

\* has_next() was called on an unopened reader and failed.
C4_Witness ==
    /\ call.method = "has_next"
    /\ \A c \in Classes : ~rd[c].opened /\ ret[c].err = "invalid_state"

\* C5: open() on an opened reader fails with an invalid-state error and
\* leaves the iteration position and the active filter unchanged.
C5_SecondOpenRejected ==
    [][\A c \in Classes :
          (rd[c].opened /\ call'.method = "open")
              => (/\ ret'[c].err = "invalid_state"
                  /\ rd'[c].opened
                  /\ rd'[c].pos = rd[c].pos
                  /\ rd'[c].filter = rd[c].filter)]_vars

\* open() was refused on a reader that had read records under a filter.
C5_Witness ==
    /\ call.method = "open"
    /\ \A c \in Classes :
          /\ ret[c].err = "invalid_state"
          /\ rd[c].opened
          /\ rd[c].pos > 0
          /\ rd[c].filter # {}


----------------------------------------------------------------------------
(* Full iterations *)

OpenedReader(c) == PyCall(c, "open", Reader, Args("bag_ok", {})).rd

RECURSIVE Iterate(_, _, _)
\* The records that the loop "while has_next(): read_next()" collects from
\* reader r, stopping at the first error; n bounds the number of rounds.
Iterate(c, r, n) ==
    IF n = 0 THEN <<>>
    ELSE LET h == PyCall(c, "has_next", r, NoArgs)
         IN  IF h.ret.err # "none" \/ ~h.ret.b THEN <<>>
             ELSE LET x == PyCall(c, "read_next", h.rd, NoArgs)
                  IN  IF x.ret.err # "none" THEN <<>>
                      ELSE <<x.ret.tuple[1]>> \o Iterate(c, x.rd, n - 1)

\* A full iteration of a freshly opened reader with no filter ever applied.
FreshIteration(c) == Iterate(c, OpenedReader(c), Len(bag) + 1)

IsPrefix(s, t) == Len(s) <= Len(t) /\ SubSeq(t, 1, Len(s)) = s

\* The iteration of reader c has run to the end without a failed read.
Finished(c) ==
    /\ rd[c].opened
    /\ ~obs[c].read_failed
    /\ ~PyCall(c, "has_next", rd[c], NoArgs).ret.b

TopicsOf(out) == { out[i][1] : i \in 1..Len(out) }
BagTopics == { bag[i].topic_name : i \in 1..Len(bag) }
NoCompressed == \A i \in 1..Len(bag) : ~bag[i].compressed

\* C6: with the filter F held fixed over an iteration, every record returned
\* is a record of the log whose topic F allows; when F is all-pass and the
\* iteration has run to the end, the topics returned are all the topics that
\* have records in the log.
C6_FilteredTopics ==
    \A c \in Classes :
        (rd[c].opened /\ ~api.midchange) =>
            /\ Len(obs[c].idxs) = Len(obs[c].out)
            /\ \A i \in 1..Len(obs[c].out) :
                  /\ obs[c].out[i][1] = bag[obs[c].idxs[i]].topic_name
                  /\ Allowed(api.want, obs[c].out[i][1])
            /\ (api.want # {} => TopicsOf(obs[c].out) \subseteq api.want)
            /\ (api.want = {} /\ Finished(c)
                   => TopicsOf(obs[c].out) = BagTopics)

\* A full iteration under the filter {"sensor"} over a bag that also has
\* "cmd" records returned a record.
C6_Witness ==
    /\ ~api.midchange
    /\ api.want = {"sensor"}
    /\ "cmd" \in BagTopics
    /\ \A c \in Classes : Finished(c) /\ obs[c].out # <<>>

\* C7: reset_filter() does what set_filter with the all-pass filter does,
\* and after a reset_filter() made before any record was read, whatever
\* filters were set before it, the iteration returns the record sequence of a
\* freshly opened reader on the same log with no filter ever applied.
C7_ResetIsAllPass ==
    \A c \in Classes :
        rd[c].opened =>
            /\ PyCall(c, "reset_filter", rd[c], NoArgs)
                  = PyCall(c, "set_filter", rd[c], Args("", {}))
            /\ (api.lastfop \in {"reset", "set_reset"} /\ ~api.midchange)
                  => /\ IsPrefix(obs[c].out, FreshIteration(c))
                     /\ (Finished(c) => obs[c].out = FreshIteration(c))

\* A filter was set, then reset before any read, and the iteration ran to
\* the end over a bag with records of both topics.
C7_Witness ==
    /\ api.lastfop = "set_reset"
    /\ ~api.midchange
    /\ BagTopics = Topics
    /\ \A c \in Classes : Finished(c) /\ Len(obs[c].out) = Len(bag)

\* C8: on an opened reader get_all_topics_and_types() returns what it
\* returns right after open, whatever was read and whatever the filter, and
\* the call leaves the iteration position and the filter as they were.
C8_TopicsIndependent ==
    [][\A c \in Classes :
          (rd[c].opened /\ call'.method = "get_all_topics_and_types")
              => (/\ ret'[c] = PyCall(c, "get_all_topics_and_types",
                                      OpenedReader(c), NoArgs).ret
                  /\ ret'[c].err = "none"
                  /\ rd'[c] = rd[c])]_vars

\* get_all_topics_and_types() answered on a reader that had read records
\* under a filter.
C8_Witness ==
    /\ call.method = "get_all_topics_and_types"
    /\ \A c \in Classes :
          /\ rd[c].opened
          /\ rd[c].pos > 0
          /\ api.want # {}
          /\ ret[c].meta # <<>>

\* C9: a record returned by read_next() passes the filter the caller asked
\* for last (also when asked between has_next() and that read_next()), and
\* lies strictly after every record already returned or skipped.
C9_FilterChangeNextRead ==
    [][\A c \in Classes :
          (call'.method = "read_next" /\ ret'[c].err = "none")
              => LET t == ret'[c].tuple[1]
                     k == obs'[c].idxs[Len(obs'[c].idxs)]
                 IN  /\ t[1] = bag[k].topic_name
                     /\ Allowed(api.want, t[1])
                     /\ k > rd[c].pos
                     /\ \A i \in 1..Len(obs[c].idxs) : k > obs[c].idxs[i]]_vars

\* After a record was read, the filter was changed between a has_next() and
\* the read_next() that followed, and that read_next() skipped a record
\* and returned one.
C9_Witness ==
    /\ api.chg = "change_read"
    /\ api.want # {}
    /\ \A c \in Classes :
          /\ ret[c].err = "none"
          /\ Len(obs[c].idxs) >= 2
          /\ obs[c].idxs[Len(obs[c].idxs)] > obs[c].idxs[Len(obs[c].idxs) - 1] + 1

\* C10: over a log with no compressed record the two bound classes give the
\* same result or error to every call, and the same records.
C10_CompressionReaderSameAsPlain ==
    NoCompressed =>
        /\ ret[CompressionClass] = ret[PlainClass]
        /\ obs[CompressionClass] = obs[PlainClass]

\* Both classes returned a record under a filter from a log with no
\* compressed record.
C10_Witness ==
    /\ NoCompressed
    /\ Len(bag) >= 2
    /\ call.method = "read_next"
    /\ api.want # {}
    /\ \A c \in Classes : ret[c].err = "none" /\ ret[c].tuple # <<>>

----------------------------------------------------------------------------
(* Properties of corrupt records, iteration, errors and ownership *)

Last(s) == s[Len(s)]

\* The record the next read_next of reader r reaches (Len(bag) + 1: none).
NextIdx(r) == SkipTo(r.filter, r.pos + 1)

\* The next record of reader r is compressed and does not decompress.
NextIsCorrupt(r) ==
    /\ r.opened
    /\ ~r.corrupted
    /\ NextIdx(r) <= Len(bag)
    /\ bag[NextIdx(r)].compressed
    /\ ~DecompressOk(bag[NextIdx(r)].data)

\* C11: in the decompressing reader, while the next record's compressed
\* payload is corrupt, has_next() answers true without an error, no call but
\* read_next() fails with a data-corruption error, read_next() fails with
\* that error and returns nothing, and a read_next() that succeeds on a
\* compressed record never returns the record's raw compressed bytes.
C11_CorruptSurfacesAtRead ==
    [][LET c == CompressionClass
       IN  /\ NextIsCorrupt(rd[c]) =>
                 /\ PyCall(c, "has_next", rd[c], NoArgs).ret
                        = [NoRet EXCEPT !.b = TRUE]
                 /\ call'.method = "has_next" =>
                        ret'[c].err = "none" /\ ret'[c].b
                 /\ call'.method # "read_next" =>
                        ret'[c].err # "data_corruption"
                 /\ call'.method = "read_next" =>
                        /\ ret'[c].err = "data_corruption"
                        /\ ret'[c].tuple = <<>>
                        /\ obs'[c].out = obs[c].out
           /\ (call'.method = "read_next" /\ ret'[c].err = "none") =>
                 LET k == Last(obs'[c].idxs)
                 IN  bag[k].compressed => ret'[c].tuple[1][2] # bag[k].data
      ]_vars

\* A has_next() and then a read_next() that met a corrupt record in the
\* decompressing reader, the plain reader returning the same record raw.
C11_Witness ==
    /\ call.method = "read_next"
    /\ api.chg = "probe_read"
    /\ ret[CompressionClass].err = "data_corruption"
    /\ ret[PlainClass].err = "none"
    /\ rd[CompressionClass].pos = rd[PlainClass].pos
    /\ rd[CompressionClass].corrupted
    /\ obs[CompressionClass].out # <<>>

\* The payload of a record as a reader of class c hands it out.
PayloadOf(c, rec) ==
    IF c = CompressionClass /\ rec.compressed THEN Decompress(rec.data)
    ELSE rec.data

\* C12: every read_next() that succeeds returns exactly one tuple of three
\* fields and appends nothing else; its topic name and timestamp are those
\* of the record it was made from, and its payload is the first
\* buffer_length bytes of the message's buffer, which are the record's
\* payload byte for byte (the decompressed bytes where the decompressing
\* reader decompressed it).
C12_ReadReturnsRecord ==
    [][call'.method = "read_next" =>
         \A c \in Classes :
           ret'[c].err = "none" =>
             LET k == Last(obs'[c].idxs)
                 message == reader_read_next(c, rd[c]).next[1]
                 tuple == ret'[c].tuple
             IN  /\ Len(tuple) = 1
                 /\ DOMAIN tuple[1] = 1..3
                 /\ obs'[c].out = Append(obs[c].out, tuple[1])
                 /\ k \in rd[c].pos + 1 .. Len(bag)
                 /\ tuple[1][1] = bag[k].topic_name
                 /\ tuple[1][3] = bag[k].time_stamp
                 /\ tuple[1][2] = PayloadOf(c, bag[k])
                 /\ Len(tuple[1][2]) = message.serialized_data.buffer_length
                 /\ tuple[1][2] = SubSeq(message.serialized_data.buffer, 1,
                                         Len(tuple[1][2]))
      ]_vars

\* The decompressing reader returned the decompressed payload of a
\* compressed record, a payload ending in a zero byte, while the plain
\* reader returned the same record's stored bytes.
C12_Witness ==
    /\ call.method = "read_next"
    /\ ret[CompressionClass].err = "none"
    /\ ret[PlainClass].err = "none"
    /\ obs[CompressionClass].idxs # <<>>
    /\ bag[Last(obs[CompressionClass].idxs)].compressed
    /\ ret[CompressionClass].tuple[1][2] = <<1, 0>>
    /\ ret[PlainClass].tuple[1][2] = <<Magic, 1, 0>>
    /\ ret[CompressionClass].tuple[1][3] > TimeStampAt(1)

StampsOf(out) == [i \in 1..Len(out) |-> out[i][3]]

NonDecreasing(s) == \A i, j \in 1..Len(s) : i <= j => s[i] <= s[j]

\* C13: over an iteration of an opened reader with no filter applied, the
\* timestamps of the records the read_next() calls have returned so far are
\* non-decreasing, up to and including the full iteration.
C13_StampsNonDecreasing ==
    \A c \in Classes :
        (rd[c].opened /\ api.want = {} /\ ~api.midchange) =>
            NonDecreasing(StampsOf(obs[c].out))

\* A full unfiltered iteration of three records by both classes, with a
\* rise and then a tie in the timestamps returned.
C13_Witness ==
    /\ api.want = {}
    /\ ~api.midchange
    /\ \A c \in Classes :
          /\ Finished(c)
          /\ Len(obs[c].out) = 3
          /\ StampsOf(obs[c].out) =
                <<TimeStampAt(1), TimeStampAt(2), TimeStampAt(3)>>
    /\ TimeStampAt(1) < TimeStampAt(2)
    /\ TimeStampAt(2) = TimeStampAt(3)

\* Some record the reader r has not consumed passes the filter.
Remaining(r, filter) ==
    \E i \in r.pos + 1 .. Len(bag) : Allowed(filter, bag[i].topic_name)

\* A true has_next() was the latest call on the reader of class c.
JustTrue(c) ==
    call.method = "has_next" /\ ret[c].err = "none" /\ ret[c].b

\* C14 as stated: on an opened reader has_next() is true exactly when a
\* record not yet consumed passes the active filter, a read_next() right
\* after a true has_next() always succeeds, and has_next() is false right
\* after an empty log was opened.
C14_Original ==
    [][\A c \in Classes :
         /\ (rd[c].opened /\ call'.method = "has_next") =>
                ret'[c].b = Remaining(rd[c], api.want)
         /\ (JustTrue(c) /\ call'.method = "read_next") =>
                ret'[c].err = "none"
         /\ (call.method = "open" /\ ret[c].err = "none" /\ bag = <<>>
                /\ call'.method = "has_next") => ~ret'[c].b
      ]_vars

\* C14, amended: on an opened reader has_next() is true exactly when a
\* record not yet consumed passes the active filter, and false right after
\* an empty log was opened; a read_next() right after a true has_next()
\* never fails for want of a record: in the plain reader it succeeds, and
\* in the decompressing reader it succeeds unless the record it reaches is
\* corrupt or an earlier read met a corrupt record, and then it fails with
\* a data-corruption error.
C14_HasNextIsFilterAware ==
    [][\A c \in Classes :
         /\ (rd[c].opened /\ call'.method = "has_next") =>
                /\ ret'[c].err = "none"
                /\ ret'[c].b = Remaining(rd[c], api.want)
         /\ (JustTrue(c) /\ call'.method = "read_next") =>
                IF c = CompressionClass
                   /\ (rd[c].corrupted \/ NextIsCorrupt(rd[c]))
                THEN ret'[c].err = "data_corruption"
                ELSE /\ ret'[c].err = "none"
                     /\ Allowed(api.want, ret'[c].tuple[1][1])
         /\ (call.method = "open" /\ ret[c].err = "none" /\ bag = <<>>
                /\ call'.method = "has_next") =>
                ret'[c].err = "none" /\ ~ret'[c].b
      ]_vars

\* Under the filter {"sensor"} a has_next() answered true although the
\* first record is a "cmd" record, and the read_next() right after it
\* returned the second record in both classes.
C14_Witness ==
    /\ call.method = "read_next"
    /\ api.chg = "probe_read"
    /\ api.want = {"sensor"}
    /\ Len(bag) >= 2
    /\ bag[1].topic_name = "cmd"
    /\ \A c \in Classes :
          /\ ret[c].err = "none"
          /\ obs[c].idxs = <<2>>

\* The skip loop only moves the reader forward and never beyond the log.
SkipBounded ==
    \A c \in Classes :
        rd[c].pos <= rd'[c].pos /\ rd'[c].pos <= Len(bag)

\* C15 as stated: for every finite log and every filter the loop
\* "while has_next(): read_next()" terminates with has_next() false, the
\* skip loop advances the backend at most Len(bag) times in total, and no
\* call raises an error on the way.
C15_Original ==
    /\ [][SkipBounded]_vars
    /\ [](~LoopAt("error"))
    /\ <>LoopAt("done")

\* C15, amended: for every finite log and every filter the loop terminates
\* and the skip loop advances the backend at most Len(bag) times in total;
\* the loop ends with has_next() false and no record left that the filter
\* allows, or, in the decompressing reader only, with the data-corruption
\* error of a read_next() that reached a corrupt record the filter allows;
\* no other call raises an error.
C15_LoopTerminates ==
    /\ [][SkipBounded]_vars
    /\ [](LoopAt("error") =>
            /\ api.loop.class = CompressionClass
            /\ call.method = "read_next"
            /\ ret[CompressionClass].err = "data_corruption"
            /\ LET k == rd[CompressionClass].pos
               IN  /\ k \in 1..Len(bag)
                   /\ bag[k].compressed /\ ~DecompressOk(bag[k].data)
                   /\ Allowed(api.want, bag[k].topic_name))
    /\ [](LoopAt("done") =>
            /\ call.method = "has_next"
            /\ ret[api.loop.class] = NoRet
            /\ ~Remaining(rd[api.loop.class], api.want))
    /\ <>(LoopAt("done") \/ LoopAt("error"))

\* The loop over a log of three records under the filter {"sensor"} has
\* ended after one record: the last record is a "cmd" record, so the end
\* of the log was reached while skipping.
C15_Witness ==
    /\ LoopAt("done")
    /\ api.want = {"sensor"}
    /\ Len(bag) = 3
    /\ bag[2].topic_name = "sensor"
    /\ bag[3].topic_name = "cmd"
    /\ obs[api.loop.class].idxs = <<2>>
    /\ ~obs[api.loop.class].read_failed

\* The indices, in log order, of the records whose topic the filter allows.
AllowedIdxs(filter) ==
    LET allowed(i) == Allowed(filter, bag[i].topic_name)
    IN  SelectSeq([i \in 1..Len(bag) |-> i], allowed)

\* The tuple a reader of class c returns for the record at index i.
TupleOf(c, i) ==
    <<bag[i].topic_name, PayloadOf(c, bag[i]), bag[i].time_stamp>>

\* C16: with the filter F installed before the first read_next() and held
\* fixed, the records returned so far are the first of the records of the
\* log that F allows (all records when F is empty), in log order, each
\* once, and when the iteration has run to the end they are all of them.
C16_FilteredSubsequence ==
    \A c \in Classes :
        (rd[c].opened /\ ~api.midchange) =>
            /\ IsPrefix(obs[c].idxs, AllowedIdxs(api.want))
            /\ obs[c].out = [i \in 1..Len(obs[c].idxs) |->
                                TupleOf(c, obs[c].idxs[i])]
            /\ (Finished(c) => obs[c].idxs = AllowedIdxs(api.want))

\* Both classes have run the iteration to the end under {"sensor"}, set by
\* set_filter before the first read, over a log of a "cmd" record and two
\* "sensor" records: the two "sensor" records were returned, in order.
C16_Witness ==
    /\ api.want = {"sensor"}
    /\ api.lastfop = "set"
    /\ ~api.midchange
    /\ Len(bag) = 3
    /\ bag[1].topic_name = "cmd"
    /\ \A c \in Classes :
          /\ Finished(c)
          /\ obs[c].idxs = <<2, 3>>
          /\ obs[c].out = <<TupleOf(c, 2), TupleOf(c, 3)>>

\* The reader r of class c after k has_next() calls.
RECURSIVE Probed(_, _, _)
Probed(c, r, k) ==
    IF k = 0 THEN r
    ELSE Probed(c, PyCall(c, "has_next", r, NoArgs).rd, k - 1)

\* C17: has_next() does not advance the iteration and leaves the filter
\* unchanged: in every state of a reader, after any number of has_next()
\* calls the filter is the one before them, and the next read_next()
\* returns the same result and leaves the reader in the same state as the
\* read_next() made without them; so the records a run of read_next()
\* calls returns are the same whatever has_next() calls are inserted.
C17_HasNextDoesNotAdvance ==
    \A c \in Classes :
        LET unprobed == PyCall(c, "read_next", rd[c], NoArgs)
        IN  \A k \in 1..MaxProbes :
                LET probed == Probed(c, rd[c], k)
                IN  /\ probed.filter = rd[c].filter
                    /\ PyCall(c, "read_next", probed, NoArgs) = unprobed

\* Two has_next() calls in a row after a read under the filter {"cmd"}
\* answered true with the reader in the middle of a log of three records,
\* two of them still to come.
C17_Witness ==
    /\ call.method = "has_next"
    /\ api.chg = "probe2"
    /\ api.reads
    /\ api.want = {"cmd"}
    /\ Len(bag) = 3
    /\ \A c \in Classes :
          /\ ret[c].b
          /\ obs[c].idxs = <<1>>
          /\ rd[c].pos = 1
          /\ rd[c].filter = {"cmd"}
          /\ ~rd[c].corrupted

\* has_next() on the opened reader r of class c reports false.
ReportsFalse(c, r) ==
    r.opened /\ ~PyCall(c, "has_next", r, NoArgs).ret.b

\* A false has_next() was the latest call on the reader of class c.
JustFalse(c) ==
    call.method = "has_next" /\ ret[c].err = "none" /\ ~ret[c].b

LaterOps == {"has_next", "read_next", "set_filter", "reset_filter"}

Backend(c, method, r, args) ==
    CASE method = "open" -> reader_open(c, r, args.uri)
      [] method = "has_next" -> reader_has_next(c, r)
      [] method = "read_next" -> reader_read_next(c, r)
      [] method = "get_all_topics_and_types" ->
             reader_get_all_topics_and_types(c, r)
      [] method = "set_filter" -> reader_set_filter(c, r, args.filter)
      [] method = "reset_filter" -> reader_reset_filter(c, r)

\* C19: every call ends with the error that one call of the reader's
\* operation raised, if it raised one, and then returns nothing and leaves
\* the reader as that one call left it (the operation is not called
\* again); once a read_next() of the decompressing reader has failed on a
\* corrupt record, every later read_next() fails too and returns no
\* record, so no record after the corrupt one is ever returned.
C19_ErrorsPropagate ==
    [][\A c \in Classes :
         LET n == Backend(c, call'.method, rd[c], call'.args)
         IN  /\ ret'[c].err = n.err
             /\ rd'[c] = n.rd
             /\ n.err # "none" =>
                    /\ ret'[c] = [NoRet EXCEPT !.err = n.err]
                    /\ obs'[c].out = obs[c].out
             /\ rd[c].corrupted =>
                    /\ rd'[c].corrupted
                    /\ obs'[c].out = obs[c].out
                    /\ call'.method = "read_next" =>
                           ret'[c].err \in {"data_corruption", "end_of_stream"}
      ]_vars

\* Under the filter {"cmd"} the decompressing reader failed on a corrupt
\* record and fails again on a later read_next(), while the plain reader
\* has returned the record and gone on to one after it.
C19_Witness ==
    /\ call.method = "read_next"
    /\ api.want = {"cmd"}
    /\ rd[CompressionClass].corrupted
    /\ ret[CompressionClass].err = "data_corruption"
    /\ ret[PlainClass].err = "none"
    /\ rd[PlainClass].pos > rd[CompressionClass].pos
    /\ obs[CompressionClass].read_failed
    /\ Len(obs[PlainClass].out) > Len(obs[CompressionClass].out) + 1

Disposed(c) == heap.own[c] = 0

\* The backend reader made for the object of class c at its construction.
MadeFor(c) == HeapAtStart.own[c]

\* C20: each object owns exactly one backend reader, the one made at its
\* construction, no other is ever made, and no two objects hold the same
\* one; when an object has been disposed of, whatever was called on it
\* before, its backend reader has been destroyed exactly once and holds no
\* opened storage; no backend reader is destroyed while its object lives,
\* and none is destroyed twice.
C20_OwnsOneBackend ==
    /\ Len(heap.inst) = Cardinality(Classes)
    /\ \A c, d \in Classes : c # d => MadeFor(c) # MadeFor(d)
    /\ \A c \in Classes :
          /\ MadeFor(c) \in 1..Len(heap.inst)
          /\ IF Disposed(c)
             THEN /\ heap.inst[MadeFor(c)] = [live |-> FALSE, releases |-> 1]
                  /\ ~rd[c].opened
             ELSE /\ heap.own[c] = MadeFor(c)
                  /\ heap.inst[MadeFor(c)] = [live |-> TRUE, releases |-> 0]

\* Both objects were disposed of right after an open() that failed in the
\* storage.
C20_Witness ==
    /\ \A c \in Classes :
          /\ Disposed(c)
          /\ ret[c].err = "storage_open"
          /\ rd[c].pos = 0
    /\ call.method = "open"
    /\ call.args.uri = "missing"
    /\ bag # <<>>

\* The other paths to disposal: never opened, partly iterated, fully
\* iterated.
DisposedUnopened ==
    /\ \A c \in Classes : Disposed(c)
    /\ call.method = "init"

DisposedPartlyIterated ==
    /\ \A c \in Classes : Disposed(c) /\ rd[c].pos \in 1..Len(bag) - 1
    /\ call.method = "read_next"

DisposedFullyIterated ==
    /\ \A c \in Classes : Disposed(c) /\ rd[c].pos = Len(bag)
    /\ call.method = "read_next"
    /\ \A c \in Classes : ret[c].err = "end_of_stream"
    /\ Len(bag) = MaxLog

====
